---- MODULE Spec2Model ----
(***************************************************************************)
(* Model of the IndicTrans2 translation wrapper:                           *)
(*   src/lib/translation/inference.py   (TranslationInference)             *)
(*   src/lib/translation/api_wrapper.py (TranslationAPIWrapper, Flask app) *)
(*                                                                         *)
(* Strings are sequences of one-character strings.  The external backend   *)
(* (transformers / torch) is an environment whose outcomes (load faults,   *)
(* generation faults, elapsed wall-clock milliseconds) are chosen          *)
(* nondeterministically.  Elapsed times are non-negative: the wall clock   *)
(* is assumed not to step backwards during a call.                         *)
(***************************************************************************)
EXTENDS Integers, Sequences, FiniteSets, TLC

VARIABLES
    deps_available,   \* TRANSFORMERS_AVAILABLE and TORCH_AVAILABLE (fixed per process)
    model,            \* TranslationInference.model      (0 = None, k = handle of load k)
    tokenizer,        \* TranslationInference.tokenizer  (0 = None, k = handle of load k)
    model_loaded,     \* TranslationInference._model_loaded
    initialized,      \* TranslationAPIWrapper._initialized
    load_count,       \* history: number of from_pretrained attempts so far
    load_successes,   \* history: number of load_model runs that loaded the backend
    init_returned_true, \* history: some initialization call has returned True
    wrapper_init_succeeded, \* history: some TranslationAPIWrapper.initialize call has returned True
    ready_reported,   \* history: a status request has reported "ready"
    input,            \* the arguments of the calls the client makes
    op,               \* the last operation
    env,              \* what the file system, the backend and the clock did during it
    pre,              \* the flags and handles before it
    result,           \* its return value
    calls,            \* the collaborator calls it made, in order
    inference_instance, \* inference._inference_instance (0 = None, k = k-th TranslationInference)
    api_wrapper,      \* api_wrapper._api_wrapper (0 = None, k = k-th TranslationAPIWrapper)
    inferences,       \* history: number of TranslationInference objects constructed
    wrappers,         \* the wrappers constructed: wrappers[k] is wrapper k's self.inference
    returned,         \* history: the instances get_inference and get_api_wrapper returned
    pc,               \* each thread's position in the code
    frame             \* each thread's local variables

vars == <<deps_available, model, tokenizer, model_loaded, initialized,
          load_count, load_successes, init_returned_true, wrapper_init_succeeded,
          ready_reported,
          input, op, env, pre, result, calls,
          inference_instance, api_wrapper, inferences, wrappers, returned,
          pc, frame>>

----------------------------------------------------------------------------
\* Bounds

MaxTextLen == 2
MaxBatch == 2
MaxDur == 2
MaxLoads == 2
MaxThreads == 2
MaxCalls == 2

\* Program constants

DefaultMaxWords == 500
HttpOk == 200
HttpBadRequest == 400
HttpServerError == 500

----------------------------------------------------------------------------
\* Strings

en == <<"e", "n">>
hi == <<"h", "i">>

SUPPORTED_LANGUAGES ==
    { hi, <<"t","a">>, <<"t","e">>, <<"k","n">>,
      <<"m","l">>, <<"m","r">>, <<"g","u">>, <<"b","n">>,
      <<"p","a">>, <<"o","r">>, <<"a","s">>, <<"u","r">>,
      <<"s","a">>, <<"k","o","k">>, <<"m","n","i">>, <<"m","a","i">>,
      <<"s","d">>, <<"k","s">>, <<"d","g">>, <<"b","o","d","o">>,
      <<"s","a","t">>, en }

IsSpace(c) == c = " "

\* str.strip(): drop leading and trailing whitespace
Strip(s) ==
    IF \A i \in 1..Len(s) : IsSpace(s[i]) THEN <<>>
    ELSE LET first == CHOOSE i \in 1..Len(s) :
                         ~IsSpace(s[i]) /\ \A j \in 1..(i-1) : IsSpace(s[j])
             last == CHOOSE i \in 1..Len(s) :
                         ~IsSpace(s[i]) /\ \A j \in (i+1)..Len(s) : IsSpace(s[j])
         IN  SubSeq(s, first, last)

\* len(str.split()): the number of maximal runs of non-whitespace
SplitLen(s) ==
    Cardinality({i \in 1..Len(s) :
                    ~IsSpace(s[i]) /\ (i = 1 \/ IsSpace(s[i-1]))})

LowerChar(c) ==
    CASE c = "E" -> "e"
      [] c = "N" -> "n"
      [] c = "H" -> "h"
      [] c = "I" -> "i"
      [] c = "X" -> "x"
      [] OTHER -> c

\* str.lower()
Lower(s) == [i \in 1..Len(s) |-> LowerChar(s[i])]

----------------------------------------------------------------------------
\* Error messages: a format string with its substituted values

Err(m, ns, ss) == [msg |-> m, nums |-> ns, strs |-> ss]

NoneErr == Err("None", <<>>, <<>>)

\* validate_input with the language rules checked before the text rules
validate_input_langs_first(text, source_lang, target_lang, max_words) ==
    IF source_lang \notin SUPPORTED_LANGUAGES
    THEN <<FALSE, Err("Unsupported source language: {source_lang}", <<>>, <<source_lang>>)>>
    ELSE IF target_lang \notin SUPPORTED_LANGUAGES
    THEN <<FALSE, Err("Unsupported target language: {target_lang}", <<>>, <<target_lang>>)>>
    ELSE IF source_lang = target_lang
    THEN <<FALSE, Err("Source and target languages must be different", <<>>, <<>>)>>
    ELSE IF text = <<>> \/ Strip(text) = <<>>
    THEN <<FALSE, Err("Text cannot be empty", <<>>, <<>>)>>
    ELSE IF SplitLen(Strip(text)) > max_words
    THEN <<FALSE, Err("Text exceeds maximum of {max_words} words (got {word_count})",
                      <<max_words, SplitLen(Strip(text))>>, <<>>)>>
    ELSE <<TRUE, NoneErr>>

\* TranslationInference.validate_input
validate_input(text, source_lang, target_lang, max_words) ==
    IF text = <<>> \/ Strip(text) = <<>>
    THEN <<FALSE, Err("Text cannot be empty", <<>>, <<>>)>>
    ELSE LET word_count == SplitLen(Strip(text)) IN
         IF word_count > max_words
         THEN <<FALSE, Err("Text exceeds maximum of {max_words} words (got {word_count})",
                           <<max_words, word_count>>, <<>>)>>
         ELSE IF source_lang \notin SUPPORTED_LANGUAGES
         THEN <<FALSE, Err("Unsupported source language: {source_lang}", <<>>, <<source_lang>>)>>
         ELSE IF target_lang \notin SUPPORTED_LANGUAGES
         THEN <<FALSE, Err("Unsupported target language: {target_lang}", <<>>, <<target_lang>>)>>
         ELSE IF source_lang = target_lang
         THEN <<FALSE, Err("Source and target languages must be different", <<>>, <<>>)>>
         ELSE <<TRUE, NoneErr>>

----------------------------------------------------------------------------
\* The backend (tokenizer / model.generate / decode) as an environment

Call(f, h) == [fn |-> f, handle |-> h]

BackendFaults == {"tokenizer", "generate", "decode"}

\* fault: where the backend raises ("none": nowhere); dur: elapsed ms when
\* duration_ms is computed; late: further ms elapsed when the except clause
\* reads the clock; out: the decoded text
BackendOutcomes ==
    [fault : BackendFaults \cup {"none"}, dur : 0..MaxDur, late : {0}, out : {<<"o">>}]
    \cup [fault : {"none"}, dur : {0}, late : {1}, out : {<<"o">>}]

\* str(e) of the fault raised by the backend
FaultMessage(f) ==
    CASE f = "tokenizer" -> Err("tokenizer raised", <<>>, <<>>)
      [] f = "generate"  -> Err("generate raised", <<>>, <<>>)
      [] f = "decode"    -> Err("decode raised", <<>>, <<>>)

\* str(ZeroDivisionError) for a float division
ZeroDivisionMessage == Err("float division by zero", <<>>, <<>>)

Failure(e, d) == [success |-> FALSE, error |-> e, duration_ms |-> d]

\* f"{x:.1f}" for x = num/den, as a number of tenths (round half to even)
FormatTenths(num, den) ==
    LET q == (10 * num) \div den
        r == (10 * num) % den
    IN  IF 2 * r > den \/ (2 * r = den /\ q % 2 = 1) THEN q + 1 ELSE q

\* translate with the loaded check made before the validation
translate_loaded_first(text, source_lang, target_lang, loaded, tok, mdl, be) ==
    LET v == validate_input(text, source_lang, target_lang, DefaultMaxWords)
        c3 == <<Call("tokenizer", tok), Call("generate", mdl), Call("decode", tok)>>
    IN  IF ~loaded
        THEN [ret |-> Failure(Err("Model not loaded. Call load_model() first.", <<>>, <<>>),
                              be.dur),
              calls |-> <<>>]
        ELSE IF ~v[1]
        THEN [ret |-> Failure(v[2], be.dur), calls |-> <<>>]
        ELSE IF be.fault \in BackendFaults
        THEN [ret |-> Failure(FaultMessage(be.fault), be.dur), calls |-> c3]
        ELSE [ret |-> Failure(ZeroDivisionMessage, be.dur), calls |-> c3]

\* translate with a fixed message in place of the fault's own
translate_generic_error(text, source_lang, target_lang, loaded, tok, mdl, be) ==
    LET v == validate_input(text, source_lang, target_lang, DefaultMaxWords)
        c3 == <<Call("tokenizer", tok), Call("generate", mdl), Call("decode", tok)>>
    IN  IF ~v[1]
        THEN [ret |-> Failure(v[2], be.dur), calls |-> <<>>]
        ELSE IF ~loaded
        THEN [ret |-> Failure(Err("Model not loaded. Call load_model() first.", <<>>, <<>>),
                              be.dur),
              calls |-> <<>>]
        ELSE [ret |-> Failure(Err("Translation failed", <<>>, <<>>), be.dur), calls |-> c3]

\* TranslationInference.translate: the returned dictionary and the backend
\* calls made
translate(text, source_lang, target_lang, loaded, tok, mdl, be) ==
    LET v == validate_input(text, source_lang, target_lang, DefaultMaxWords)
        c1 == <<Call("tokenizer", tok)>>
        c2 == c1 \o <<Call("generate", mdl)>>
        c3 == c2 \o <<Call("decode", tok)>>
    IN  IF ~v[1]
        THEN [ret |-> Failure(v[2], be.dur), calls |-> <<>>]
        ELSE IF ~loaded
        THEN [ret |-> Failure(Err("Model not loaded. Call load_model() first.", <<>>, <<>>),
                              be.dur),
              calls |-> <<>>]
        ELSE IF be.fault = "tokenizer"
        THEN [ret |-> Failure(FaultMessage(be.fault), be.dur), calls |-> c1]
        ELSE IF be.fault = "generate"
        THEN [ret |-> Failure(FaultMessage(be.fault), be.dur), calls |-> c2]
        ELSE IF be.fault = "decode"
        THEN [ret |-> Failure(FaultMessage(be.fault), be.dur), calls |-> c3]
        ELSE IF be.dur = 0
        \* len(text.split()) / (duration_ms / 1000) raises inside the try block
        THEN [ret |-> Failure(ZeroDivisionMessage, be.dur + be.late), calls |-> c3]
        ELSE [ret |-> [success |-> TRUE,
                       translated_text |-> be.out,
                       source_lang |-> source_lang,
                       target_lang |-> target_lang,
                       duration_ms |-> be.dur,
                       word_count |-> SplitLen(text),
                       inference_speed |-> FormatTenths(SplitLen(text) * 1000, be.dur)],
              calls |-> c3]

\* TranslationInference.batch_translate: results.append(translate(text)) for
\* each text in order; bes[i] is the backend's behaviour during the i-th call
RECURSIVE batch_loop_abort(_, _, _, _, _, _, _, _, _)
\* batch_loop leaving the loop at the first failed translation
batch_loop_abort(texts, i, results, cs, source_lang, target_lang, tok, mdl, ctx) ==
    IF i > Len(texts) THEN [ret |-> results, calls |-> cs]
    ELSE LET r == translate(texts[i], source_lang, target_lang,
                            ctx.loaded, tok, mdl, ctx.bes[i])
         IN  IF ~r.ret.success
             THEN [ret |-> Append(results, r.ret), calls |-> cs \o r.calls]
             ELSE batch_loop_abort(texts, i + 1, Append(results, r.ret), cs \o r.calls,
                                   source_lang, target_lang, tok, mdl, ctx)

RECURSIVE batch_loop(_, _, _, _, _, _, _, _, _)
batch_loop(texts, i, results, cs, source_lang, target_lang, tok, mdl, ctx) ==
    IF i > Len(texts) THEN [ret |-> results, calls |-> cs]
    ELSE LET r == translate(texts[i], source_lang, target_lang,
                            ctx.loaded, tok, mdl, ctx.bes[i])
         IN  batch_loop(texts, i + 1, Append(results, r.ret), cs \o r.calls,
                        source_lang, target_lang, tok, mdl, ctx)

batch_translate(texts, source_lang, target_lang, loaded, tok, mdl, bes) ==
    batch_loop(texts, 1, <<>>, <<>>, source_lang, target_lang, tok, mdl,
               [loaded |-> loaded, bes |-> bes])

----------------------------------------------------------------------------
\* Model loading

LoadOutcomes == {"no_dir", "tokenizer_fault", "model_fault", "eval_fault", "ok"}

\* load_model without the early return for an already loaded model
load_model_always_reload(s, avail, lo) ==
    LET h == s.load_count + 1
    IN  IF ~avail \/ lo # "ok"
        THEN [ret |-> FALSE, s |-> [s EXCEPT !.model_loaded = FALSE], calls |-> <<>>]
        ELSE [ret |-> TRUE,
              s |-> [s EXCEPT !.load_count = h, !.tokenizer = h, !.model = h,
                              !.model_loaded = TRUE,
                              !.load_successes = s.load_successes + 1],
              calls |-> <<Call("AutoTokenizer.from_pretrained", h),
                          Call("AutoModelForSeq2SeqLM.from_pretrained", h),
                          Call("eval", h)>>]

\* TranslationInference.load_model on the inference state s =
\* [model_loaded, tokenizer, model, load_count, load_successes]; lo is what
\* the file system and the backend do during this call
load_model(s, avail, lo) ==
    LET h == s.load_count + 1
        tried == [s EXCEPT !.load_count = h]
    IN  IF s.model_loaded
        THEN [ret |-> TRUE, s |-> s, calls |-> <<>>]
        ELSE IF ~avail
        THEN [ret |-> FALSE, s |-> s, calls |-> <<>>]
        ELSE IF lo = "no_dir"
        THEN [ret |-> FALSE, s |-> s, calls |-> <<>>]
        ELSE IF lo = "tokenizer_fault"
        THEN [ret |-> FALSE,
              s |-> [tried EXCEPT !.model_loaded = FALSE],
              calls |-> <<Call("AutoTokenizer.from_pretrained", h)>>]
        ELSE IF lo = "model_fault"
        THEN [ret |-> FALSE,
              s |-> [tried EXCEPT !.tokenizer = h, !.model_loaded = FALSE],
              calls |-> <<Call("AutoTokenizer.from_pretrained", h),
                          Call("AutoModelForSeq2SeqLM.from_pretrained", h)>>]
        ELSE IF lo = "eval_fault"
        THEN [ret |-> FALSE,
              s |-> [tried EXCEPT !.tokenizer = h, !.model = h, !.model_loaded = FALSE],
              calls |-> <<Call("AutoTokenizer.from_pretrained", h),
                          Call("AutoModelForSeq2SeqLM.from_pretrained", h),
                          Call("eval", h)>>]
        ELSE [ret |-> TRUE,
              s |-> [tried EXCEPT !.tokenizer = h, !.model = h, !.model_loaded = TRUE,
                                  !.load_successes = s.load_successes + 1],
              calls |-> <<Call("AutoTokenizer.from_pretrained", h),
                          Call("AutoModelForSeq2SeqLM.from_pretrained", h),
                          Call("eval", h)>>]

\* initialize setting _initialized whatever load_model returns
initialize_flag_first(w, avail, lo) ==
    IF w.initialized
    THEN [ret |-> TRUE, w |-> w, calls |-> <<>>]
    ELSE LET l == load_model(w.s, avail, lo)
         IN  [ret |-> l.ret, w |-> [initialized |-> TRUE, s |-> l.s],
              calls |-> <<Call("load_model", 0)>> \o l.calls]

\* TranslationAPIWrapper.initialize on w = [initialized, s]
initialize(w, avail, lo) ==
    IF w.initialized
    THEN [ret |-> TRUE, w |-> w, calls |-> <<>>]
    ELSE LET l == load_model(w.s, avail, lo)
             c == <<Call("load_model", 0)>> \o l.calls
         IN  IF l.ret
             THEN [ret |-> TRUE, w |-> [initialized |-> TRUE, s |-> l.s], calls |-> c]
             ELSE [ret |-> FALSE, w |-> [w EXCEPT !.s = l.s], calls |-> c]

----------------------------------------------------------------------------
\* The request/response envelope (api_wrapper.py)

Keys == {"text", "source_lang", "target_lang"}

\* a JSON value that is not a string
JsonNull == <<"#null">>

IsStr(v) == v # JsonNull

\* dict.get(k, default)
Get(d, k, default) == IF k \in DOMAIN d THEN d[k] ELSE default

Envelope(e) == [success |-> FALSE, error |-> e]

TextRequired == Err("Text parameter is required and cannot be empty", <<>>, <<>>)
LangsRequired == Err("source_lang and target_lang parameters are required", <<>>, <<>>)
InitFailed == Err("Failed to initialize translation model", <<>>, <<>>)

\* str(AttributeError) for a method looked up on a value that lacks it
NoAttribute(m) == Err("object has no attribute", <<>>, <<m>>)

\* handle_translate_request initializing before it validates the parameters
handle_translate_request_init_first(w, req, avail, lo, be) ==
    LET i == initialize(w, avail, lo)
        text == Strip(Get(req.fields, "text", <<>>))
        source_lang == Lower(Get(req.fields, "source_lang", <<>>))
        target_lang == Lower(Get(req.fields, "target_lang", <<>>))
        r == translate(text, source_lang, target_lang,
                       i.w.s.model_loaded, i.w.s.tokenizer, i.w.s.model, be)
    IN  IF req.body = "null" \/ \E k \in DOMAIN req.fields : ~IsStr(req.fields[k])
        THEN [ret |-> Envelope(NoAttribute(<<"g","e","t">>)), w |-> w, calls |-> <<>>]
        ELSE IF ~i.ret
        THEN [ret |-> Envelope(InitFailed), w |-> i.w, calls |-> i.calls]
        ELSE IF text = <<>>
        THEN [ret |-> Envelope(TextRequired), w |-> i.w, calls |-> i.calls]
        ELSE IF source_lang = <<>> \/ target_lang = <<>>
        THEN [ret |-> Envelope(LangsRequired), w |-> i.w, calls |-> i.calls]
        ELSE [ret |-> r.ret, w |-> i.w,
              calls |-> i.calls \o <<Call("translate", 0)>> \o r.calls]

\* handle_translate_request passing the language codes on without lowercasing
handle_translate_request_no_lower(w, req, avail, lo, be) ==
    LET i == initialize(w, avail, lo)
        text == Strip(Get(req.fields, "text", <<>>))
        source_lang == Get(req.fields, "source_lang", <<>>)
        target_lang == Get(req.fields, "target_lang", <<>>)
        r == translate(text, source_lang, target_lang,
                       i.w.s.model_loaded, i.w.s.tokenizer, i.w.s.model, be)
    IN  IF req.body = "null" \/ \E k \in DOMAIN req.fields : ~IsStr(req.fields[k])
        THEN [ret |-> Envelope(NoAttribute(<<"g","e","t">>)), w |-> w, calls |-> <<>>]
        ELSE IF text = <<>>
        THEN [ret |-> Envelope(TextRequired), w |-> w, calls |-> <<>>]
        ELSE IF source_lang = <<>> \/ target_lang = <<>>
        THEN [ret |-> Envelope(LangsRequired), w |-> w, calls |-> <<>>]
        ELSE IF ~i.ret
        THEN [ret |-> Envelope(InitFailed), w |-> i.w, calls |-> i.calls]
        ELSE [ret |-> r.ret, w |-> i.w,
              calls |-> i.calls \o <<Call("translate", 0)>> \o r.calls]

\* handle_translate_request without its try/except: a fault in the body
\* leaves the handler as a raised exception instead of a returned envelope
handle_translate_request_no_catch(w, req, avail, lo, be) ==
    LET t0 == Get(req.fields, "text", <<>>)
        s0 == Get(req.fields, "source_lang", <<>>)
        g0 == Get(req.fields, "target_lang", <<>>)
        i == initialize(w, avail, lo)
        w1 == IF w.initialized THEN w ELSE i.w
        c1 == IF w.initialized THEN <<>> ELSE i.calls
        r == translate(Strip(t0), Lower(s0), Lower(g0),
                       w1.s.model_loaded, w1.s.tokenizer, w1.s.model, be)
    IN  IF req.body = "null"
        THEN [ret |-> [raised |-> NoAttribute(<<"g","e","t">>)], w |-> w, calls |-> <<>>]
        ELSE IF ~IsStr(t0)
        THEN [ret |-> [raised |-> NoAttribute(<<"s","t","r","i","p">>)], w |-> w, calls |-> <<>>]
        ELSE IF ~IsStr(s0) \/ ~IsStr(g0)
        THEN [ret |-> [raised |-> NoAttribute(<<"l","o","w","e","r">>)], w |-> w, calls |-> <<>>]
        ELSE IF Strip(t0) = <<>>
        THEN [ret |-> Envelope(TextRequired), w |-> w, calls |-> <<>>]
        ELSE IF Lower(s0) = <<>> \/ Lower(g0) = <<>>
        THEN [ret |-> Envelope(LangsRequired), w |-> w, calls |-> <<>>]
        ELSE IF ~w.initialized /\ ~i.ret
        THEN [ret |-> Envelope(InitFailed), w |-> i.w, calls |-> i.calls]
        ELSE [ret |-> r.ret, w |-> w1,
              calls |-> c1 \o <<Call("translate", 0)>> \o r.calls]

\* TranslationAPIWrapper.handle_translate_request; req = [body, fields] is
\* the parsed JSON body ("null" or an object with the given fields)
handle_translate_request(w, req, avail, lo, be) ==
    LET t0 == Get(req.fields, "text", <<>>)
        s0 == Get(req.fields, "source_lang", <<>>)
        g0 == Get(req.fields, "target_lang", <<>>)
        text == Strip(t0)
        source_lang == Lower(s0)
        target_lang == Lower(g0)
        i == initialize(w, avail, lo)
        w1 == IF w.initialized THEN w ELSE i.w
        c1 == IF w.initialized THEN <<>> ELSE i.calls
        r == translate(text, source_lang, target_lang,
                       w1.s.model_loaded, w1.s.tokenizer, w1.s.model, be)
    IN  IF req.body = "null"
        THEN [ret |-> Envelope(NoAttribute(<<"g","e","t">>)), w |-> w, calls |-> <<>>]
        ELSE IF ~IsStr(t0)
        THEN [ret |-> Envelope(NoAttribute(<<"s","t","r","i","p">>)), w |-> w, calls |-> <<>>]
        ELSE IF ~IsStr(s0) \/ ~IsStr(g0)
        THEN [ret |-> Envelope(NoAttribute(<<"l","o","w","e","r">>)), w |-> w, calls |-> <<>>]
        ELSE IF text = <<>>
        THEN [ret |-> Envelope(TextRequired), w |-> w, calls |-> <<>>]
        ELSE IF source_lang = <<>> \/ target_lang = <<>>
        THEN [ret |-> Envelope(LangsRequired), w |-> w, calls |-> <<>>]
        ELSE IF ~w.initialized /\ ~i.ret
        THEN [ret |-> Envelope(InitFailed), w |-> i.w, calls |-> i.calls]
        ELSE [ret |-> r.ret, w |-> w1,
              calls |-> c1 \o <<Call("translate", 0)>> \o r.calls]

\* TranslationInference.get_model_info (the file-system size probe is opaque)
get_model_info(s) ==
    [model_loaded |-> s.model_loaded,
     device |-> "cpu",
     supported_languages |-> Cardinality(SUPPORTED_LANGUAGES),
     languages |-> SUPPORTED_LANGUAGES]

\* TranslationAPIWrapper.handle_languages_request
handle_languages_request(w) ==
    [success |-> TRUE,
     languages |-> SUPPORTED_LANGUAGES,
     count |-> Cardinality(SUPPORTED_LANGUAGES)]

\* handle_status_request reporting the inference's flag as the status
handle_status_request_by_model(w) ==
    [success |-> TRUE,
     status |-> IF w.s.model_loaded THEN "ready" ELSE "not_initialized",
     model_info |-> get_model_info(w.s)]

\* TranslationAPIWrapper.handle_status_request
handle_status_request(w) ==
    [success |-> TRUE,
     status |-> IF w.initialized THEN "ready" ELSE "not_initialized",
     model_info |-> get_model_info(w.s)]

\* create_flask_app.initialize, the before_request hook
before_request(w, avail, lo) ==
    IF ~w.initialized THEN initialize(w, avail, lo)
    ELSE [ret |-> TRUE, w |-> w, calls |-> <<>>]

\* the view function answering 200 whatever the envelope
translate_status_always_ok(envelope) == HttpOk

\* 200 if result.get('success') else 400
translate_status(envelope) == IF envelope.success THEN HttpOk ELSE HttpBadRequest

\* create_flask_app.translate, the POST /api/translate view function;
\* gj = "raise" when request.get_json() raises
post_translate(w, gj, req, avail, lo, be) ==
    LET h == handle_translate_request(w, req, avail, lo, be)
    IN  IF gj = "raise"
        THEN [ret |-> [envelope |-> Envelope(Err("get_json raised", <<>>, <<>>)),
                       status_code |-> HttpServerError],
              w |-> w, calls |-> <<>>]
        ELSE [ret |-> [envelope |-> h.ret, status_code |-> translate_status(h.ret)],
              w |-> h.w, calls |-> h.calls]

\* create_flask_app.languages, the GET /api/languages view function
get_languages(w) ==
    [envelope |-> handle_languages_request(w), status_code |-> HttpOk]

\* create_flask_app.status, the GET /api/status view function
get_status(w) ==
    [envelope |-> handle_status_request(w), status_code |-> HttpOk]

----------------------------------------------------------------------------
\* Inputs

Chars == {"a", " "}

\* "a a a ... a": DefaultMaxWords + 1 words
LongText ==
    SubSeq([i \in 1..(2 * DefaultMaxWords + 1) |-> IF i % 2 = 1 THEN "a" ELSE " "],
           1, 2 * DefaultMaxWords + 1)

ShortTexts == UNION {[1..n -> Chars] : n \in 0..MaxTextLen}

Texts == ShortTexts \cup {LongText}

xx == <<"x", "x">>
EN == <<"E", "N">>

Codes == {en, hi, xx, EN}

MaxWordsChoices == {0, 1, DefaultMaxWords}

BatchTexts == {<<>>, <<"a">>}
BatchOutcomes ==
    {be \in BackendOutcomes :
        /\ be.late = 0
        /\ be.dur <= 1
        /\ be.fault = "none" \/ (be.fault = "generate" /\ be.dur = 0)}

RequestOutcomes == BatchOutcomes

\* a key that the request object does not carry
Absent == <<"#absent">>

RequestTexts == {Absent, JsonNull, <<" ">>, <<" ", "a">>}
RequestCodes == {Absent, JsonNull, <<>>, EN, hi, xx}

Fields(r) == [k \in {k \in Keys : r[k] # Absent} |-> r[k]]

NullBody == [body |-> "null", fields |-> Fields([k \in Keys |-> Absent])]

Requests ==
    {[body |-> "object", fields |-> Fields(r)] :
        r \in [text : RequestTexts, source_lang : RequestCodes, target_lang : RequestCodes]}
    \cup {NullBody}

ValidateInputs ==
    [text : Texts, source_lang : Codes, target_lang : Codes, max_words : MaxWordsChoices]

TranslatePairs == {<<en, hi>>, <<en, en>>, <<xx, hi>>, <<en, xx>>}

TranslateInputs ==
    {[text |-> t, source_lang |-> p[1], target_lang |-> p[2]] :
        t \in ShortTexts, p \in TranslatePairs}
    \cup [text : {LongText}, source_lang : {xx}, target_lang : {hi}]

BatchInputs ==
    UNION {[texts : [1..n -> BatchTexts], source_lang : {en}, target_lang : {hi, en}] :
              n \in 0..MaxBatch}

RequestInputs == [req : Requests]

Object(f) == [body |-> "object", fields |-> f]

ServiceRequests ==
    {Object([text |-> <<" ", "a">>, source_lang |-> EN, target_lang |-> hi]),
     Object([text |-> <<" ", "a">>, source_lang |-> EN, target_lang |-> xx]),
     Object([source_lang |-> EN, target_lang |-> hi]),
     NullBody}

ServiceInputs == [req : ServiceRequests]

Has(k) == k \in DOMAIN input

----------------------------------------------------------------------------
\* State

S == [model_loaded |-> model_loaded, tokenizer |-> tokenizer, model |-> model,
      load_count |-> load_count, load_successes |-> load_successes]

W == [initialized |-> initialized, s |-> S]

Pre == [model_loaded |-> model_loaded, initialized |-> initialized,
        tokenizer |-> tokenizer, model |-> model]

InitOps == {"load_model", "initialize_model", "initialize"}

\* initialize() reached load_model() during the operation that made the calls cs
CallsLoadModel(cs) == \E i \in 1..Len(cs) : cs[i].fn = "load_model"

\* the effect of an operation named o that returns ret, leaves the wrapper
\* and inference in w and made the calls cs
Commit(o, e, ret, w, cs) ==
    /\ w.s.load_count <= MaxLoads
    /\ op' = o
    /\ env' = e
    /\ pre' = Pre
    /\ result' = ret
    /\ calls' = cs
    /\ initialized' = w.initialized
    /\ model_loaded' = w.s.model_loaded
    /\ tokenizer' = w.s.tokenizer
    /\ model' = w.s.model
    /\ load_count' = w.s.load_count
    /\ load_successes' = w.s.load_successes
    /\ init_returned_true' =
          \/ init_returned_true
          \/ o \in InitOps /\ ret = TRUE
          \/ CallsLoadModel(cs) /\ w.s.model_loaded
    /\ wrapper_init_succeeded' =
          \/ wrapper_init_succeeded
          \/ o = "initialize" /\ ret = TRUE
          \/ CallsLoadModel(cs) /\ w.s.model_loaded
    /\ ready_reported' =
          (ready_reported \/ (o = "handle_status_request" /\ ret.status = "ready"))
    /\ UNCHANGED <<deps_available, input>>
    /\ UNCHANGED <<inference_instance, api_wrapper, inferences, wrappers, returned,
                   pc, frame>>

\* the load outcomes that matter to a call: one when no load is attempted
Loads(needed) == IF needed /\ deps_available THEN LoadOutcomes ELSE {"ok"}

Threads == 1..MaxThreads

\* the locals of a thread that has not called anything yet
NoFrame == [fn |-> "", caller |-> "", n |-> 0, new |-> 0, inf |-> 0, wrapper |-> 0,
            load |-> 0, tok |-> 0, mdl |-> 0, dec |-> 0, ret |-> "none"]

\* one caller that has made the first get_api_wrapper() call and got the
\* wrapper and, through it, the inference instance
OneCaller ==
    /\ inference_instance = 1
    /\ api_wrapper = 1
    /\ inferences = 1
    /\ wrappers = <<1>>
    /\ returned = [get_inference |-> {1}, get_api_wrapper |-> {1}]
    /\ pc = [t \in Threads |-> "done"]
    /\ frame = [t \in Threads |-> NoFrame]

\* the fields of a new TranslationInference and a new TranslationAPIWrapper
Fresh ==
    /\ model = 0
    /\ tokenizer = 0
    /\ model_loaded = FALSE
    /\ initialized = FALSE
    /\ load_count = 0
    /\ load_successes = 0
    /\ init_returned_true = FALSE
    /\ wrapper_init_succeeded = FALSE
    /\ ready_reported = FALSE
    /\ env = <<>>
    /\ pre = [model_loaded |-> FALSE, initialized |-> FALSE, tokenizer |-> 0, model |-> 0]
    /\ result = <<>>
    /\ calls = <<>>

\* the state after construction of the wrapper and its inference instance
Constructed ==
    /\ OneCaller
    /\ deps_available \in BOOLEAN
    /\ Fresh
    /\ op = "construct"

ValidateInput ==
    /\ Has("max_words")
    /\ Commit("validate_input", <<>>,
              validate_input(input.text, input.source_lang, input.target_lang,
                             input.max_words),
              W, <<>>)

Translate ==
    /\ Has("text")
    /\ ~Has("max_words")
    /\ \E be \in BackendOutcomes :
        LET r == translate(input.text, input.source_lang, input.target_lang,
                           model_loaded, tokenizer, model, be)
        IN  Commit("translate", [be |-> be], r.ret, W, r.calls)

BatchTranslate ==
    /\ Has("texts")
    /\ \E bes \in [1..Len(input.texts) -> BatchOutcomes] :
        LET r == batch_translate(input.texts, input.source_lang, input.target_lang,
                                 model_loaded, tokenizer, model, bes)
        IN  Commit("batch_translate", [bes |-> bes], r.ret, W, r.calls)

LoadModel ==
    \E lo \in Loads(~model_loaded) :
        LET l == load_model(S, deps_available, lo)
        IN  Commit("load_model", [lo |-> lo], l.ret, [W EXCEPT !.s = l.s], l.calls)

\* inference.initialize_model: get_inference().load_model()
InitializeModel ==
    \E lo \in Loads(~model_loaded) :
        LET l == load_model(S, deps_available, lo)
        IN  Commit("initialize_model", [lo |-> lo], l.ret, [W EXCEPT !.s = l.s], l.calls)

Initialize ==
    \E lo \in Loads(~initialized /\ ~model_loaded) :
        LET i == initialize(W, deps_available, lo)
        IN  Commit("initialize", [lo |-> lo], i.ret, i.w, i.calls)

HandleTranslateRequest ==
    /\ Has("req")
    /\ \E lo \in Loads(~initialized /\ ~model_loaded), be \in RequestOutcomes :
        LET h == handle_translate_request(W, input.req, deps_available, lo, be)
        IN  Commit("handle_translate_request", [lo |-> lo, be |-> be],
                   h.ret, h.w, h.calls)

HandleLanguagesRequest ==
    Commit("handle_languages_request", <<>>, handle_languages_request(W), W, <<>>)

HandleStatusRequest ==
    Commit("handle_status_request", <<>>, handle_status_request(W), W, <<>>)

\* POST /api/translate: the before_request hook, then the view function
PostTranslate ==
    /\ Has("req")
    /\ \E lo0 \in Loads(~initialized /\ ~model_loaded) :
        LET b == before_request(W, deps_available, lo0)
            nobe == CHOOSE be \in RequestOutcomes : TRUE
            raised == post_translate(b.w, "raise", input.req, deps_available, "ok", nobe)
        IN  \/ Commit("POST /api/translate", [gj |-> "raise", lo0 |-> lo0],
                      raised.ret, raised.w, b.calls \o raised.calls)
            \/ \E lo \in Loads(~b.w.initialized /\ ~b.w.s.model_loaded),
                  be \in RequestOutcomes :
                LET e == post_translate(b.w, "ok", input.req, deps_available, lo, be)
                IN  Commit("POST /api/translate",
                           [gj |-> "ok", lo0 |-> lo0, lo |-> lo, be |-> be],
                           e.ret, e.w, b.calls \o e.calls)

\* GET /api/languages: the before_request hook, then the view function
GetLanguages ==
    \E lo0 \in Loads(~initialized /\ ~model_loaded) :
        LET b == before_request(W, deps_available, lo0)
        IN  Commit("GET /api/languages", [lo0 |-> lo0], get_languages(b.w), b.w, b.calls)

\* GET /api/status: the before_request hook, then the view function
GetStatus ==
    \E lo0 \in Loads(~initialized /\ ~model_loaded) :
        LET b == before_request(W, deps_available, lo0)
        IN  Commit("GET /api/status", [lo0 |-> lo0], get_status(b.w), b.w, b.calls)

----------------------------------------------------------------------------
\* Specifications

\* validate_input over all inputs
InitValidate == Constructed /\ input \in ValidateInputs
NextValidate == ValidateInput
SpecValidate == InitValidate /\ [][NextValidate]_vars

\* the orchestrator: load_model, translate, batch_translate
InitTranslate == Constructed /\ input \in TranslateInputs \cup BatchInputs
NextTranslate ==
    \/ LoadModel
    \/ Translate
    \/ BatchTranslate
SpecTranslate == InitTranslate /\ [][NextTranslate]_vars

\* the envelope: the wrapper's translate handler over all requests
InitWrapper == Constructed /\ input \in RequestInputs
NextWrapper ==
    \/ LoadModel
    \/ Initialize
    \/ HandleTranslateRequest
SpecWrapper == InitWrapper /\ [][NextWrapper]_vars

\* the session: every initialization path and every handler of the wrapper
InitSession == Constructed /\ input \in ServiceInputs
NextSession ==
    \/ LoadModel
    \/ InitializeModel
    \/ Initialize
    \/ HandleTranslateRequest
    \/ HandleLanguagesRequest
    \/ HandleStatusRequest
SpecSession == InitSession /\ [][NextSession]_vars

\* the envelope boundary: the three handlers over all requests
InitEnvelope == Constructed /\ input \in RequestInputs
NextEnvelope ==
    \/ LoadModel
    \/ Initialize
    \/ HandleTranslateRequest
    \/ HandleLanguagesRequest
    \/ HandleStatusRequest
SpecEnvelope == InitEnvelope /\ [][NextEnvelope]_vars

\* the Flask application: its three routes behind the before_request hook
InitFlask == Constructed /\ input \in ServiceInputs
NextFlask ==
    \/ PostTranslate
    \/ GetLanguages
    \/ GetStatus
SpecFlask == InitFlask /\ [][NextFlask]_vars

-----------------------------------------------------------------------------
\* The module globals, statement by statement, under threads.  A thread
\* switch can fall between any two statements: between the test of a global
\* and its assignment, and inside a constructor.

sessionVars == <<deps_available, model, tokenizer, model_loaded, initialized,
                 load_count, load_successes, init_returned_true,
                 wrapper_init_succeeded, ready_reported>>
lastVars == <<input, op, env, pre, result, calls>>
singletonVars == <<inference_instance, api_wrapper, inferences, wrappers, returned>>

\* thread t moves to position p with locals f
Goto(t, p, f) ==
    /\ pc' = [pc EXCEPT ![t] = p]
    /\ frame' = [frame EXCEPT ![t] = f]

\* a client thread calls get_inference()
CallGetInference ==
    \E t \in Threads :
        /\ pc[t] = "idle"
        /\ frame[t].n < MaxCalls
        /\ Goto(t, "gi_test", [frame[t] EXCEPT !.fn = "get_inference",
                                               !.caller = "client", !.n = @ + 1])
        /\ UNCHANGED <<sessionVars, lastVars, singletonVars>>

\* a client thread calls get_api_wrapper()
CallGetApiWrapper ==
    \E t \in Threads :
        /\ pc[t] = "idle"
        /\ frame[t].n < MaxCalls
        /\ Goto(t, "gw_test", [frame[t] EXCEPT !.fn = "get_api_wrapper",
                                               !.caller = "client", !.n = @ + 1])
        /\ UNCHANGED <<sessionVars, lastVars, singletonVars>>

\* get_inference: if _inference_instance is None
GetInferenceTest ==
    \E t \in Threads :
        /\ pc[t] = "gi_test"
        /\ Goto(t, IF inference_instance = 0 THEN "gi_new" ELSE "gi_ret", frame[t])
        /\ UNCHANGED <<sessionVars, lastVars, singletonVars>>

\* get_inference: TranslationInference()
GetInferenceConstruct ==
    \E t \in Threads :
        /\ pc[t] = "gi_new"
        /\ inferences' = inferences + 1
        /\ Goto(t, "gi_assign", [frame[t] EXCEPT !.new = inferences + 1])
        /\ UNCHANGED <<sessionVars, lastVars, inference_instance, api_wrapper,
                       wrappers, returned>>

\* get_inference: _inference_instance = <the new object>
GetInferenceAssign ==
    \E t \in Threads :
        /\ pc[t] = "gi_assign"
        /\ inference_instance' = frame[t].new
        /\ Goto(t, "gi_ret", frame[t])
        /\ UNCHANGED <<sessionVars, lastVars, api_wrapper, inferences, wrappers,
                       returned>>

\* get_inference: return _inference_instance, to the client or to
\* TranslationAPIWrapper.__init__ (self.inference = get_inference())
GetInferenceReturn ==
    \E t \in Threads :
        /\ pc[t] = "gi_ret"
        /\ IF frame[t].caller = "client"
           THEN /\ returned' = [returned EXCEPT
                                   !.get_inference = @ \cup {inference_instance}]
                /\ Goto(t, "idle", frame[t])
           ELSE /\ returned' = returned
                /\ Goto(t, "w_init", [frame[t] EXCEPT !.inf = inference_instance])
        /\ UNCHANGED <<sessionVars, lastVars, inference_instance, api_wrapper,
                       inferences, wrappers>>

\* get_api_wrapper: if _api_wrapper is None; when it is, TranslationAPIWrapper()
\* starts and its __init__ calls get_inference()
GetApiWrapperTest ==
    \E t \in Threads :
        /\ pc[t] = "gw_test"
        /\ IF api_wrapper = 0
           THEN Goto(t, "gi_test", [frame[t] EXCEPT !.caller = "__init__"])
           ELSE Goto(t, "gw_ret", frame[t])
        /\ UNCHANGED <<sessionVars, lastVars, singletonVars>>

\* TranslationAPIWrapper.__init__: self.inference is set, self._initialized = False
WrapperInit ==
    \E t \in Threads :
        /\ pc[t] = "w_init"
        /\ wrappers' = Append(wrappers, frame[t].inf)
        /\ Goto(t, "gw_assign", [frame[t] EXCEPT !.wrapper = Len(wrappers) + 1])
        /\ UNCHANGED <<sessionVars, lastVars, inference_instance, api_wrapper,
                       inferences, returned>>

\* get_api_wrapper: _api_wrapper = <the new object>
GetApiWrapperAssign ==
    \E t \in Threads :
        /\ pc[t] = "gw_assign"
        /\ api_wrapper' = frame[t].wrapper
        /\ Goto(t, "gw_ret", frame[t])
        /\ UNCHANGED <<sessionVars, lastVars, inference_instance, inferences,
                       wrappers, returned>>

\* get_api_wrapper: return _api_wrapper
GetApiWrapperReturn ==
    \E t \in Threads :
        /\ pc[t] = "gw_ret"
        /\ returned' = [returned EXCEPT !.get_api_wrapper = @ \cup {api_wrapper}]
        /\ Goto(t, "idle", frame[t])
        /\ UNCHANGED <<sessionVars, lastVars, inference_instance, api_wrapper,
                       inferences, wrappers>>

\* the process after import: both globals None, nothing constructed
InitSingleton ==
    /\ inference_instance = 0
    /\ api_wrapper = 0
    /\ inferences = 0
    /\ wrappers = <<>>
    /\ returned = [get_inference |-> {}, get_api_wrapper |-> {}]
    /\ pc = [t \in Threads |-> "idle"]
    /\ frame = [t \in Threads |-> NoFrame]
    /\ deps_available = TRUE
    /\ Fresh
    /\ input = <<>>
    /\ op = "import"
NextSingleton ==
    \/ CallGetInference
    \/ CallGetApiWrapper
    \/ GetInferenceTest
    \/ GetInferenceConstruct
    \/ GetInferenceAssign
    \/ GetInferenceReturn
    \/ GetApiWrapperTest
    \/ WrapperInit
    \/ GetApiWrapperAssign
    \/ GetApiWrapperReturn
SpecSingleton == InitSingleton /\ [][NextSingleton]_vars

-----------------------------------------------------------------------------
\* Requests handled by threads against the one wrapper, statement by
\* statement: the before_request hook, handle_translate_request from its
\* initialization check on, initialize, load_model and translate.  Every
\* request is well formed and the backend translates without fault.

\* a statement that leaves the wrapper and its inference instance in w
Step(w) ==
    /\ initialized' = w.initialized
    /\ model_loaded' = w.s.model_loaded
    /\ tokenizer' = w.s.tokenizer
    /\ model' = w.s.model
    /\ load_count' = w.s.load_count
    /\ load_successes' = w.s.load_successes
    /\ init_returned_true' =
          (init_returned_true \/ w.initialized \/ w.s.load_successes > load_successes)
    /\ wrapper_init_succeeded' = (wrapper_init_succeeded \/ w.initialized)
    /\ UNCHANGED <<deps_available, ready_reported, lastVars, singletonVars>>

\* initialize() returns v to the statement that called it: the hook drops the
\* value, handle_translate_request translates or returns the failure envelope
AfterInitialize(t, v) ==
    IF frame[t].caller = "before_request"
    THEN Goto(t, "h_test", frame[t])
    ELSE IF v
    THEN Goto(t, "tr_test", frame[t])
    ELSE Goto(t, "done", [frame[t] EXCEPT !.ret = "init_failed"])

\* Flask receives POST /api/translate on a thread and runs the hook
ReceiveRequest ==
    \E t \in Threads :
        /\ pc[t] = "start"
        /\ Goto(t, "br_test", [frame[t] EXCEPT !.fn = "post_translate"])
        /\ Step(W)

\* a thread calls wrapper.handle_translate_request(data) itself
CallHandleTranslateRequest ==
    \E t \in Threads :
        /\ pc[t] = "start"
        /\ Goto(t, "h_test", [frame[t] EXCEPT !.fn = "handle_translate_request"])
        /\ Step(W)

\* before_request: if not wrapper._initialized: wrapper.initialize()
BeforeRequestTest ==
    \E t \in Threads :
        /\ pc[t] = "br_test"
        /\ IF initialized
           THEN Goto(t, "h_test", frame[t])
           ELSE Goto(t, "init_test", [frame[t] EXCEPT !.caller = "before_request"])
        /\ Step(W)

\* handle_translate_request: if not self._initialized: if not self.initialize()
HandlerInitializedTest ==
    \E t \in Threads :
        /\ pc[t] = "h_test"
        /\ IF initialized
           THEN Goto(t, "tr_test", frame[t])
           ELSE Goto(t, "init_test",
                     [frame[t] EXCEPT !.caller = "handle_translate_request"])
        /\ Step(W)

\* initialize: if self._initialized: return True
InitializeTest ==
    \E t \in Threads :
        /\ pc[t] = "init_test"
        /\ IF initialized
           THEN AfterInitialize(t, TRUE)
           ELSE Goto(t, "lm_test", frame[t])
        /\ Step(W)

\* load_model: the _model_loaded, is_available() and model_dir.exists() tests
LoadModelTest ==
    \E t \in Threads, dir \in BOOLEAN :
        /\ pc[t] = "lm_test"
        /\ IF model_loaded
           THEN Goto(t, "init_set", frame[t])
           ELSE IF ~deps_available \/ ~dir
           THEN AfterInitialize(t, FALSE)
           ELSE Goto(t, "lm_tok", frame[t])
        /\ Step(W)

\* load_model: self.tokenizer = AutoTokenizer.from_pretrained(...)
LoadTokenizer ==
    \E t \in Threads, ok \in BOOLEAN :
        /\ pc[t] = "lm_tok"
        /\ load_count < MaxLoads
        /\ LET h == load_count + 1
           IN  /\ Goto(t, IF ok THEN "lm_model" ELSE "lm_except",
                       [frame[t] EXCEPT !.load = h])
               /\ Step([W EXCEPT !.s.load_count = h,
                                 !.s.tokenizer = IF ok THEN h ELSE @])

\* load_model: self.model = AutoModelForSeq2SeqLM.from_pretrained(...)
LoadModelObject ==
    \E t \in Threads, ok \in BOOLEAN :
        /\ pc[t] = "lm_model"
        /\ Goto(t, IF ok THEN "lm_eval" ELSE "lm_except", frame[t])
        /\ Step([W EXCEPT !.s.model = IF ok THEN frame[t].load ELSE @])

\* load_model: self.model.eval(), then self._model_loaded = True; return True
LoadModelFinish ==
    \E t \in Threads, ok \in BOOLEAN :
        /\ pc[t] = "lm_eval"
        /\ Goto(t, IF ok THEN "init_set" ELSE "lm_except", frame[t])
        /\ Step(IF ok THEN [W EXCEPT !.s.model_loaded = TRUE,
                                     !.s.load_successes = @ + 1]
                      ELSE W)

\* load_model: except Exception: self._model_loaded = False; return False
LoadModelExcept ==
    \E t \in Threads :
        /\ pc[t] = "lm_except"
        /\ AfterInitialize(t, FALSE)
        /\ Step([W EXCEPT !.s.model_loaded = FALSE])

\* initialize: self._initialized = True; return True
InitializeSet ==
    \E t \in Threads :
        /\ pc[t] = "init_set"
        /\ AfterInitialize(t, TRUE)
        /\ Step([W EXCEPT !.initialized = TRUE])

\* translate: if not self._model_loaded: return the "Model not loaded" failure
TranslateLoadedTest ==
    \E t \in Threads :
        /\ pc[t] = "tr_test"
        /\ IF model_loaded
           THEN Goto(t, "tr_tok", frame[t])
           ELSE Goto(t, "done", [frame[t] EXCEPT !.ret = "not_loaded"])
        /\ Step(W)

\* translate: inputs = self.tokenizer(input_text, ...)
TranslateTokenize ==
    \E t \in Threads :
        /\ pc[t] = "tr_tok"
        /\ Goto(t, "tr_gen", [frame[t] EXCEPT !.tok = tokenizer])
        /\ Step(W)

\* translate: outputs = self.model.generate(**inputs, ...)
TranslateGenerate ==
    \E t \in Threads :
        /\ pc[t] = "tr_gen"
        /\ Goto(t, "tr_dec", [frame[t] EXCEPT !.mdl = model])
        /\ Step(W)

\* translate: translated_text = self.tokenizer.decode(outputs[0], ...)
TranslateDecode ==
    \E t \in Threads :
        /\ pc[t] = "tr_dec"
        /\ Goto(t, "done", [frame[t] EXCEPT !.dec = tokenizer, !.ret = "translated"])
        /\ Step(W)

\* the wrapper constructed and not initialized, a request arriving on each thread
InitConcurrent ==
    /\ inference_instance = 1
    /\ api_wrapper = 1
    /\ inferences = 1
    /\ wrappers = <<1>>
    /\ returned = [get_inference |-> {1}, get_api_wrapper |-> {1}]
    /\ pc = [t \in Threads |-> "start"]
    /\ frame = [t \in Threads |-> NoFrame]
    /\ deps_available \in BOOLEAN
    /\ Fresh
    /\ input = <<>>
    /\ op = "construct"
NextConcurrent ==
    \/ ReceiveRequest
    \/ CallHandleTranslateRequest
    \/ BeforeRequestTest
    \/ HandlerInitializedTest
    \/ InitializeTest
    \/ LoadModelTest
    \/ LoadTokenizer
    \/ LoadModelObject
    \/ LoadModelFinish
    \/ LoadModelExcept
    \/ InitializeSet
    \/ TranslateLoadedTest
    \/ TranslateTokenize
    \/ TranslateGenerate
    \/ TranslateDecode
SpecConcurrent == InitConcurrent /\ [][NextConcurrent]_vars

----------------------------------------------------------------------------
\* Properties

\* the number of words of s: the positions where a run of non-whitespace ends
WordEnds(s) ==
    Cardinality({i \in 1..Len(s) :
                    s[i] # " " /\ (i = Len(s) \/ s[i+1] = " ")})

OnlyWhitespace(s) == \A i \in 1..Len(s) : s[i] = " "

\* C1: validate_input returns the error of the first failing rule in the
\* order empty-text, word-count (with the exact count), unsupported source,
\* unsupported target, same language, and (True, None) exactly when no rule
\* fails.
C1_FirstFailingRuleWins ==
    op = "validate_input" =>
        LET t == input.text
            src == input.source_lang
            tgt == input.target_lang
            n == WordEnds(t)
            empty == OnlyWhitespace(t)
            long == ~empty /\ n > input.max_words
            badsrc == src \notin SUPPORTED_LANGUAGES
            badtgt == tgt \notin SUPPORTED_LANGUAGES
            same == src = tgt
        IN  /\ empty => result = <<FALSE, Err("Text cannot be empty", <<>>, <<>>)>>
            /\ long =>
                 result = <<FALSE,
                            Err("Text exceeds maximum of {max_words} words (got {word_count})",
                                <<input.max_words, n>>, <<>>)>>
            /\ ~empty /\ ~long /\ badsrc =>
                 result = <<FALSE, Err("Unsupported source language: {source_lang}",
                                       <<>>, <<src>>)>>
            /\ ~empty /\ ~long /\ ~badsrc /\ badtgt =>
                 result = <<FALSE, Err("Unsupported target language: {target_lang}",
                                       <<>>, <<tgt>>)>>
            /\ ~empty /\ ~long /\ ~badsrc /\ ~badtgt /\ same =>
                 result = <<FALSE, Err("Source and target languages must be different",
                                       <<>>, <<>>)>>
            /\ (result = <<TRUE, NoneErr>>)
                 <=> (~empty /\ ~long /\ ~badsrc /\ ~badtgt /\ ~same)

\* a text of 501 words with an unsupported source code gets the length error
C1_Witness ==
    /\ op = "validate_input"
    /\ input.text = LongText
    /\ input.source_lang = xx
    /\ input.max_words = DefaultMaxWords
    /\ result[2].nums = <<DefaultMaxWords, DefaultMaxWords + 1>>

\* the outcome of validate_input as translate calls it
Validation == validate_input(input.text, input.source_lang, input.target_lang, DefaultMaxWords)

FailureKeys == {"success", "error", "duration_ms"}

NotLoadedMessage == Err("Model not loaded. Call load_model() first.", <<>>, <<>>)

\* C2: translate calls the backend only when the input is valid and the model
\* is loaded; a validation failure is reported first, then the unloaded
\* model, each as a failure with duration_ms >= 0 and no backend call.
C2_BackendOnlyWhenValidAndLoaded ==
    op = "translate" =>
        /\ ~Validation[1] =>
             /\ DOMAIN result = FailureKeys
             /\ result.success = FALSE
             /\ result.error = Validation[2]
             /\ result.duration_ms >= 0
             /\ calls = <<>>
        /\ Validation[1] /\ ~pre.model_loaded =>
             /\ DOMAIN result = FailureKeys
             /\ result.success = FALSE
             /\ result.error = NotLoadedMessage
             /\ result.duration_ms >= 0
             /\ calls = <<>>
        /\ calls # <<>> => Validation[1] /\ pre.model_loaded

\* an invalid input while no model is loaded: the validation error is reported
C2_Witness ==
    /\ op = "translate"
    /\ ~Validation[1]
    /\ ~pre.model_loaded
    /\ result.error = Validation[2]
    /\ calls = <<>>

\* the backend was reached and raised during this translate call
BackendRaised ==
    /\ op = "translate"
    /\ Validation[1]
    /\ pre.model_loaded
    /\ env.be.fault \in BackendFaults

\* C3: a fault raised by the tokenizer, by generate or by decode is returned
\* as a failure carrying the fault's message and duration_ms >= 0, and the
\* loaded model, its handles and the loaded flag are as before the call.
C3_BackendFaultNormalized ==
    BackendRaised =>
        /\ DOMAIN result = FailureKeys
        /\ result.success = FALSE
        /\ result.error = FaultMessage(env.be.fault)
        /\ result.duration_ms >= 0
        /\ model_loaded
        /\ model = pre.model
        /\ tokenizer = pre.tokenizer

\* generate raised: the failure carries its message and the model stays loaded
C3_Witness ==
    /\ BackendRaised
    /\ env.be.fault = "generate"
    /\ result.error = FaultMessage("generate")
    /\ model_loaded

\* the backend was reached and generated and decoded without fault
BackendSucceeded ==
    /\ op = "translate"
    /\ Validation[1]
    /\ pre.model_loaded
    /\ env.be.fault = "none"

SuccessKeys ==
    {"success", "translated_text", "source_lang", "target_lang",
     "duration_ms", "word_count", "inference_speed"}

\* C4: with a valid input, a loaded model and a backend that raises nothing,
\* translate returns the Success shape with the input's word count, for every
\* elapsed duration_ms >= 0, duration_ms = 0 included.
C4_SuccessForEveryDuration ==
    BackendSucceeded =>
        /\ DOMAIN result = SuccessKeys
        /\ result.success = TRUE
        /\ result.word_count = WordEnds(input.text)

RECURSIVE ConcatCalls(_, _)
ConcatCalls(rs, i) == IF i > Len(rs) THEN <<>> ELSE rs[i].calls \o ConcatCalls(rs, i + 1)

\* what translate returns for the i-th text of the batch
Single(i) ==
    translate(input.texts[i], input.source_lang, input.target_lang,
              pre.model_loaded, pre.tokenizer, pre.model, env.bes[i])

\* C5: batch_translate returns one result per text, the i-th being that of
\* translate on the i-th text, with the backend calls made in input order;
\* a failed text neither ends the batch nor changes another text's result.
C5_BatchPreservesOrderAndCount ==
    op = "batch_translate" =>
        /\ Len(result) = Len(input.texts)
        /\ \A i \in 1..Len(input.texts) : result[i] = Single(i).ret
        /\ calls = ConcatCalls([i \in 1..Len(input.texts) |-> Single(i)], 1)

\* a batch whose first text fails and whose second text is translated
C5_Witness ==
    /\ op = "batch_translate"
    /\ Len(input.texts) >= 2
    /\ Len(result) = Len(input.texts)
    /\ ~result[1].success
    /\ result[2].success

Loaders == {"AutoTokenizer.from_pretrained", "AutoModelForSeq2SeqLM.from_pretrained"}

LoadsBackend(cs) == \E i \in 1..Len(cs) : cs[i].fn \in Loaders

\* C6: once an initialization call has returned True, every later one returns
\* True without loading, the model and tokenizer handles stay, and the backend
\* is loaded successfully at most once; a failed call leaves the model not
\* loaded and the next call on an unloaded model attempts the load again.
C6_InitializationIdempotent ==
    [][ /\ init_returned_true =>
            /\ model_loaded /\ model_loaded'
            /\ model' = model
            /\ tokenizer' = tokenizer
            /\ load_successes' = load_successes
            /\ ~LoadsBackend(calls')
            /\ op' \in InitOps => result' = TRUE
        /\ load_successes' <= 1
        /\ op' \in InitOps /\ result' = FALSE => ~model_loaded'
        /\ op' \in InitOps /\ ~model_loaded /\ deps_available /\ env'.lo # "no_dir" =>
            \E i \in 1..Len(calls') :
                calls'[i] = Call("AutoTokenizer.from_pretrained", load_count + 1)
      ]_vars

\* a load failed, the next succeeded, and a further initialization call
\* returned True without touching the backend
C6_Witness ==
    /\ op \in InitOps
    /\ pre.model_loaded
    /\ result = TRUE
    /\ ~LoadsBackend(calls)
    /\ load_count = 2
    /\ load_successes = 1
    /\ model = 2

\* the request is a JSON object whose fields, where present, are strings
StringFields(req) ==
    /\ req.body = "object"
    /\ \A k \in DOMAIN req.fields : req.fields[k] \notin {JsonNull}

MissingOrEmpty(req, k) == k \notin DOMAIN req.fields \/ req.fields[k] = <<>>

TextMissing(req) == "text" \notin DOMAIN req.fields \/ OnlyWhitespace(req.fields["text"])

LangMissing(req) == MissingOrEmpty(req, "source_lang") \/ MissingOrEmpty(req, "target_lang")

SessionUntouched ==
    /\ initialized = pre.initialized
    /\ model_loaded = pre.model_loaded
    /\ model = pre.model
    /\ tokenizer = pre.tokenizer

\* C7: a request without text (missing, or empty after trimming) gets the
\* text error, also when the codes are missing too; otherwise a request
\* without one of the codes gets the codes error; neither reaches
\* load_model or translate nor changes the initialization state.
C7_MalformedRejectedBeforeWork ==
    op = "handle_translate_request" /\ StringFields(input.req) =>
        /\ TextMissing(input.req) =>
             /\ result = [success |-> FALSE, error |-> TextRequired]
             /\ calls = <<>>
             /\ SessionUntouched
        /\ ~TextMissing(input.req) /\ LangMissing(input.req) =>
             /\ result = [success |-> FALSE, error |-> LangsRequired]
             /\ calls = <<>>
             /\ SessionUntouched

\* a request with whitespace-only text and no codes, on a wrapper that could
\* have initialized: the text error, and no initialization
C7_Witness ==
    /\ op = "handle_translate_request"
    /\ input.req.body = "object"
    /\ DOMAIN input.req.fields = {"text"}
    /\ input.req.fields["text"] = <<" ">>
    /\ deps_available
    /\ env.lo = "ok"
    /\ result = [success |-> FALSE, error |-> TextRequired]
    /\ ~initialized

WellFormed(req) == StringFields(req) /\ ~TextMissing(req) /\ ~LangMissing(req)

\* what the orchestrator returns for the request in the session as the
\* handler leaves it
Delegated ==
    translate(Strip(input.req.fields["text"]),
              Lower(input.req.fields["source_lang"]),
              Lower(input.req.fields["target_lang"]),
              model_loaded, tokenizer, model, env.be)

\* C8 as stated: every well-formed request is answered with translate's
\* result, in every state of the backend session.
C8_AlwaysDelegates ==
    op = "handle_translate_request" /\ WellFormed(input.req) =>
        result = Delegated.ret

\* C8 amended: a well-formed request is answered with translate's result for
\* (trimmed text, lowercased codes) when the wrapper is initialized or its
\* initialize() succeeds; when initialize() fails the answer is the
\* initialization error and translate is not called.
C8_DelegatesOnceInitialized ==
    op = "handle_translate_request" /\ WellFormed(input.req) =>
        /\ initialized =>
             /\ result = Delegated.ret
             /\ \E i \in 1..Len(calls) : calls[i].fn = "translate"
        /\ ~initialized =>
             /\ ~pre.initialized
             /\ result = [success |-> FALSE, error |-> InitFailed]
             /\ \A i \in 1..Len(calls) : calls[i].fn # "translate"

\* an uppercase source code and an unsupported target on a wrapper that
\* initializes during the request: the orchestrator's validation error
C8_Witness ==
    /\ op = "handle_translate_request"
    /\ WellFormed(input.req)
    /\ input.req.fields["source_lang"] = EN
    /\ input.req.fields["target_lang"] = xx
    /\ ~pre.initialized
    /\ initialized
    /\ result.error = Err("Unsupported target language: {target_lang}", <<>>, <<xx>>)

\* C9: a status request answers success with "ready" exactly when an
\* initialization through the wrapper has succeeded and "not_initialized"
\* otherwise, leaves the session as it was, and after one "ready" answer no
\* later status request answers "not_initialized".
C9_StatusMonotone ==
    /\ [](op = "handle_status_request" =>
            /\ result.success = TRUE
            /\ "model_info" \in DOMAIN result
            /\ result.status = IF wrapper_init_succeeded THEN "ready" ELSE "not_initialized"
            /\ SessionUntouched)
    /\ [][ready_reported /\ op' = "handle_status_request" => result'.status = "ready"]_vars

\* a status request on a wrapper whose initialization has succeeded: "ready"
C9_Witness ==
    /\ op = "handle_status_request"
    /\ result.status = "ready"
    /\ pre.initialized
    /\ wrapper_init_succeeded

\* C10: POST /api/translate answers 200 exactly when the envelope says
\* success, 400 for every other envelope the handler returns (validation
\* errors included) and 500 only when the view function itself faults; the
\* two GET routes answer 200 with their envelope.
C10_HttpStatusMapping ==
    /\ op = "POST /api/translate" =>
         /\ result.status_code = HttpOk <=> result.envelope.success
         /\ env.gj = "ok" /\ ~result.envelope.success => result.status_code = HttpBadRequest
         /\ result.status_code = HttpServerError <=> env.gj = "raise"
    /\ op = "GET /api/languages" =>
         /\ result.status_code = HttpOk
         /\ result.envelope = handle_languages_request(W)
    /\ op = "GET /api/status" =>
         /\ result.status_code = HttpOk
         /\ result.envelope = handle_status_request(W)

\* a request with an unsupported target on a loaded model: the orchestrator's
\* validation error, answered 400
C10_Witness ==
    /\ op = "POST /api/translate"
    /\ model_loaded
    /\ ~result.envelope.success
    /\ result.envelope.error = Err("Unsupported target language: {target_lang}", <<>>, <<xx>>)
    /\ result.status_code = HttpBadRequest

EnvelopeOps ==
    {"handle_translate_request", "handle_languages_request", "handle_status_request"}

\* a value that str(e) or a message literal produces
IsMessage(e) == DOMAIN e = {"msg", "nums", "strs"}

\* C11: for every request (a null body, missing keys and non-string values
\* included) and every backend behaviour, each of the three handlers returns
\* a mapping with a boolean 'success' and, when it is false, an 'error'
\* message; no fault leaves a handler as an exception.
C11_EnvelopeNeverRaises ==
    op \in EnvelopeOps =>
        /\ "raised" \notin DOMAIN result
        /\ "success" \in DOMAIN result
        /\ result.success \in BOOLEAN
        /\ ~result.success =>
             /\ "error" \in DOMAIN result
             /\ IsMessage(result.error)

\* a JSON null as source_lang beside a usable text: the AttributeError of
\* .lower() comes back as a failure envelope
C11_Witness ==
    /\ op = "handle_translate_request"
    /\ input.req.body = "object"
    /\ "text" \in DOMAIN input.req.fields
    /\ input.req.fields["text"] = <<" ", "a">>
    /\ "source_lang" \in DOMAIN input.req.fields
    /\ input.req.fields["source_lang"] = JsonNull
    /\ result = [success |-> FALSE, error |-> NoAttribute(<<"l","o","w","e","r">>)]

\* C14 as stated: the wrapper's _initialized and the inference's
\* _model_loaded are equal in every reachable state, and Status reports
\* "ready" exactly when its model_info.model_loaded is true.
C14_FlagsAgree ==
    /\ initialized <=> model_loaded
    /\ op = "handle_status_request" =>
         (result.status = "ready" <=> result.model_info.model_loaded)

\* C14 amended: _initialized implies _model_loaded, the two are equal right
\* after every TranslationAPIWrapper.initialize call, and Status never
\* reports "ready" with model_info.model_loaded false; after a direct
\* load_model or initialize_model the model is loaded while the wrapper is
\* not yet initialized.
C14_InitializedImpliesLoaded ==
    /\ initialized => model_loaded
    /\ op = "initialize" => (initialized <=> model_loaded)
    /\ op = "handle_status_request" =>
         (result.status = "ready" => result.model_info.model_loaded)

\* Status asked after a direct load: "not_initialized" beside a loaded model
C14_Witness ==
    /\ op = "handle_status_request"
    /\ result.status = "not_initialized"
    /\ result.model_info.model_loaded
    /\ model_loaded
    /\ ~initialized

\* C12: in every interleaving of get_inference() and get_api_wrapper() calls,
\* at most one TranslationInference and at most one TranslationAPIWrapper are
\* constructed, every call returns that same instance, and the wrapper's
\* inference handle is the instance get_inference() returns.
C12_SingleInstance ==
    /\ inferences <= 1
    /\ Len(wrappers) <= 1
    /\ Cardinality(returned.get_inference) <= 1
    /\ Cardinality(returned.get_api_wrapper) <= 1
    /\ \A w \in returned.get_api_wrapper :
           /\ wrappers[w] = inference_instance
           /\ \A i \in returned.get_inference : wrappers[w] = i

\* the requests that ran translate to its end
Translated == {t \in Threads : pc[t] = "done" /\ frame[t].ret = "translated"}

\* C13: when requests are handled concurrently against a wrapper that is not
\* yet initialized, the backend is loaded at most once, and no request
\* translates with a tokenizer and a model taken from two different loads.
C13_LoadedAtMostOnce ==
    /\ load_successes <= 1
    /\ \A t \in Translated :
           /\ frame[t].tok = frame[t].mdl
           /\ frame[t].dec = frame[t].mdl

\* C13, its second half alone: a request that translated used the tokenizer
\* and the model of one load.
C13_OneLoadPerTranslation ==
    \A t \in Translated :
        /\ frame[t].tok = frame[t].mdl
        /\ frame[t].dec = frame[t].mdl

====
